---- MODULE Spec2Model ----
(***************************************************************************)
(* A model of the client-side configuration and UI utilities of Kiwix JS:  *)
(*   - www/js/init.js  : settings store access, query-string overrides,    *)
(*                       storage API detection, PWA launch hand-shake and  *)
(*                       the native WebP test;                             *)
(*   - uiUtil.js       : systemAlert, applyAppTheme, feedNodeWithDataURI,  *)
(*                       the one-time set-up of the alert boxes,           *)
(*                       removeUrlParameters, deriveZimUrlFromRelativeUrl. *)
(*                                                                         *)
(* JavaScript strings are modelled as sequences of tokens.  A token is a   *)
(* TLA+ string standing either for one special character ("_", "=", ";",   *)
(* "&", "?", " ", "%", ".") or for a run of plain characters that no       *)
(* regular expression of the program tells apart.  Theme names are spelled *)
(* character by character, because applyAppTheme parses them.              *)
(***************************************************************************)
EXTENDS Integers, Sequences, FiniteSets, TLC

VARIABLES
    \* ---- applyAppTheme (uiUtil.js) ----
    htmlClasses,     \* classList of the root <html> element
    footerClasses,   \* classList of the <footer> element
    dataTheme,       \* htmlEl.dataset.theme ('' when never set)
    iframeClasses,   \* classList of the #articleContent iframe
    sheets,          \* hrefs of the <link id="kiwixJSTheme"> elements of the article document, in document order
    docPresent,      \* iframe.contentDocument is not null
    lastTheme,       \* history: the argument of the latest applyAppTheme call (<<>> before the first)
    lastDark,        \* history: darkPreference.matches at the latest call
    themeCalls,      \* history: the number of applyAppTheme calls so far
    afterApply       \* history: nothing has happened to the page since the latest applyAppTheme call

VARIABLES
    \* ---- systemAlert (uiUtil.js) ----
    modalShown,      \* the #alertModal Bootstrap modal is displayed
    modalText,       \* textContent / innerHTML of the modal's label, body and buttons
    btnDisplay,      \* style.display of the three buttons
    hideListeners,   \* 'hide.bs.modal' listeners on #alertModal, in attachment order: the promise each settles
    keyupListeners,  \* 'keyup' listeners on #alertModal, in attachment order: the isConfirm each closed over
    promises,        \* the promises returned by the systemAlert calls so far, in call order
    activeElement    \* id of document.activeElement

VARIABLES
    \* ---- settings store and init.js ----
    jar,             \* the cookies of the page, in creation order: records [name, value] of raw (encoded) text
    ls,              \* localStorage: a function from keys to strings
    params,          \* the global params object: a function from property names to JavaScript values
    written,         \* history: for each setting name, the value of the latest setSetting call (absent when none)
    readName,        \* history: the argument of a getSetting call made since the latest write (<<>> when none)
    readResult       \* history: what that getSetting call returned

storeVars == <<jar, ls, params, written, readName, readResult>>

VARIABLES
    \* ---- one page load (init.js) ----
    env,             \* the browser: [lsUsable, cookiesWork, swAvail]
    store0,          \* history: the settings held by the stores when the page is loaded, and the store holding them
    pairs,           \* history: the key/value pairs the query string was built from
    search,          \* window.location.search
    pc,              \* where init.js is: "load", "overridden" (line 122 reached), "done", "crashed" (uncaught exception)
    ui,              \* the controls of the configuration section set by init.js
    webpTest,        \* the native WebP test image: "none", "pending" (src set), "native" or "missing" (the
                     \* support that onload or onerror found)
    webpScript,      \* the webpHero polyfill script element: "none", "loading", "loaded"
    webpMachine      \* the global webpMachine: "undefined", "false", "machine"

loadVars == <<env, store0, pairs, search, pc, ui, webpTest, webpScript, webpMachine>>

VARIABLES
    \* ---- the uiUtil module and feedNodeWithDataURI (uiUtil.js) ----
    rqDef,           \* the RequireJS dependencies of the module (<<>> before its script is evaluated)
    moduleDefined,   \* the callback of define() has run: the functions of the module can be called
    feeds            \* the feedNodeWithDataURI calls so far, in call order: one record each

feedVars == <<rqDef, moduleDefined, feeds>>

VARIABLES
    \* ---- displayActiveContentWarning and displayFileDownloadAlert (uiUtil.js) ----
    activeContentWarningSetup,  \* the flag of line 240
    downloadAlertSetup,         \* the flag of line 282
    alertDisplay,               \* style.display of the alert boxes #activeContent and #downloadAlert
    clickListeners,             \* for each element, the number of click listeners the two functions attached
    highlighted,                \* the labels of the Config tab that have a red border
    mousedownListeners,         \* the number of mousedown listeners attached by the clicks on the links
    displayCalls                \* history: the number of calls of each of the two functions

setupVars == <<activeContentWarningSetup, downloadAlertSetup, alertDisplay, clickListeners, highlighted,
               mousedownListeners, displayCalls>>

VARIABLES
    \* ---- removeUrlParameters and deriveZimUrlFromRelativeUrl (uiUtil.js) ----
    url,             \* the url argument
    base,            \* the base argument of deriveZimUrlFromRelativeUrl
    results          \* the values returned so far, each call after the first being given the latest result

urlVars == <<url, base, results>>

alertVars == <<modalShown, modalText, btnDisplay, hideListeners, keyupListeners, promises, activeElement>>

themeVars == <<htmlClasses, footerClasses, dataTheme, iframeClasses, sheets, docPresent, lastTheme, lastDark,
               themeCalls, afterApply>>

vars == <<themeVars, alertVars, storeVars, loadVars, feedVars, setupVars, urlVars>>

\* What the operations of one part leave alone: the state of the other parts
notTheme == <<alertVars, storeVars, loadVars, feedVars, setupVars, urlVars>>
notAlert == <<themeVars, storeVars, loadVars, feedVars, setupVars, urlVars>>
notStore == <<themeVars, alertVars, loadVars, feedVars, setupVars, urlVars>>
notLoad == <<themeVars, alertVars, written, readName, readResult, feedVars, setupVars, urlVars>>
notSetup == <<themeVars, alertVars, storeVars, loadVars, feedVars, urlVars>>
notUrl == <<themeVars, alertVars, storeVars, loadVars, feedVars, setupVars>>

(***************************************************************************)
(* Generic string helpers                                                  *)
(***************************************************************************)

\* The index of the first occurrence of token c in s, 0 when there is none
IndexOf(s, c) ==
    IF \E i \in 1..Len(s) : s[i] = c
    THEN CHOOSE i \in 1..Len(s) : s[i] = c /\ \A j \in 1..(i-1) : s[j] # c
    ELSE 0

\* pat occurs in s at offset i; the token "." of pat matches any one token (a regular expression's dot)
MatchesAt(s, pat, i) ==
    /\ i + Len(pat) - 1 <= Len(s)
    /\ \A k \in 1..Len(pat) : pat[k] = "." \/ s[i + k - 1] = pat[k]

\* String.prototype.search(pat) >= 0, pat taken as a regular expression
Search(s, pat) == \E i \in 1..(Len(s) + 1) : MatchesAt(s, pat, i)

(***************************************************************************)
(* applyAppTheme                                                           *)
(***************************************************************************)

\* The number of applyAppTheme calls explored
MaxThemeCalls == 3

S_light == <<"l","i","g","h","t">>
S_dark == <<"d","a","r","k">>
S_auto == <<"a","u","t","o">>
S__light == <<"_">> \o S_light
S__invert == <<"_","i","n","v","e","r","t">>
S__mwInvert == <<"_","m","w","I","n","v","e","r","t">>

\* light|dark[_invert|_mwInvert]|auto[_invert|_mwInvert]
Themes ==
    { S_light, S_dark, S_dark \o S__invert, S_dark \o S__mwInvert,
      S_auto, S_auto \o S__invert, S_auto \o S__mwInvert }

\* /^auto/.test(theme)
IsAuto(theme) == Len(theme) >= 4 /\ SubSeq(theme, 1, 4) = S_auto

\* theme.replace(/_.*$/, '')
AppPart(theme) ==
    IF IndexOf(theme, "_") = 0 THEN theme ELSE SubSeq(theme, 1, IndexOf(theme, "_") - 1)

\* theme.replace(/^[^_]*/, '')
ContentPart(theme) ==
    IF IndexOf(theme, "_") = 0 THEN <<>> ELSE SubSeq(theme, IndexOf(theme, "_"), Len(theme))

\* A slip the href could have: the content theme is left out of the file name
SheetHrefWithoutTheme(contentTheme) == <<"prefix/css/", "kiwixJS">> \o <<".", "css">>

\* prefix + '/css/kiwixJS' + contentTheme + '.css'
SheetHref(contentTheme) == <<"prefix/css/", "kiwixJS">> \o contentTheme \o <<".", "css">>

\* 'kiwixJS' + contentTheme + '.css', the pattern searched in the href of the attached sheet
SheetPattern(contentTheme) == <<"kiwixJS">> \o contentTheme \o <<".", "css">>

\* A slip the resolution could have: an auto theme is taken for dark whatever the system prefers
ResolveAppThemeIgnoringPreference(theme, dark) ==
    IF IsAuto(theme) THEN S_dark ELSE AppPart(theme)

\* The app theme resolved from the matchMedia preference (auto themes) or from the theme string
ResolveAppTheme(theme, dark) ==
    IF IsAuto(theme) THEN (IF dark THEN S_dark ELSE S_light) ELSE AppPart(theme)

\* A slip the html update could have: the old app theme is not removed
HtmlClassesAfterNoRemoval(classes, oldAppTheme, appTheme) ==
    classes \cup (IF appTheme # <<>> THEN {appTheme} ELSE {})

\* htmlEl.classList after removing oldAppTheme and adding appTheme
HtmlClassesAfter(classes, oldAppTheme, appTheme) ==
    ((IF oldAppTheme # <<>> THEN classes \ {oldAppTheme} ELSE classes)
        \cup (IF appTheme # <<>> THEN {appTheme} ELSE {}))

\* A slip the footer update could have: the new content theme is added without the '_light' fallback
FooterClassesAfterNoFallback(classes, oldContentTheme, contentTheme) ==
    ((classes \ {IF oldContentTheme # <<>> THEN oldContentTheme ELSE S__light})
        \cup (IF contentTheme # <<>> THEN {contentTheme} ELSE {}))

\* footer.classList after removing the old content theme and adding the new one (a missing one implies _light)
FooterClassesAfter(classes, oldContentTheme, contentTheme) ==
    ((classes \ {IF oldContentTheme # <<>> THEN oldContentTheme ELSE S__light})
        \cup {IF contentTheme # <<>> THEN contentTheme ELSE S__light})

applyAppTheme(theme, dark) ==
    LET appTheme == ResolveAppTheme(theme, dark)
        contentTheme == ContentPart(theme)
        oldTheme == dataTheme
        hasSheet == docPresent /\ sheets # <<>>
        oldAppTheme == AppPart(oldTheme)
        oldContentTheme == ContentPart(oldTheme)
        \* contentTheme = null for auto themes whenever the system is in light mode
        nulled == IsAuto(theme) /\ appTheme = S_light
        removeOld == oldContentTheme # <<>> /\ (nulled \/ oldContentTheme # contentTheme)
        applyNew == /\ ~nulled
                    /\ contentTheme # <<>>
                    /\ (~hasSheet \/ ~Search(sheets[1], SheetPattern(contentTheme)))
        iframe1 == IF removeOld THEN iframeClasses \ {oldContentTheme} ELSE iframeClasses
        sheets1 == IF removeOld /\ hasSheet THEN Tail(sheets) ELSE sheets
    IN  /\ themeCalls < MaxThemeCalls
        /\ themeCalls' = themeCalls + 1
        /\ htmlClasses' = HtmlClassesAfter(htmlClasses, oldAppTheme, appTheme)
        /\ footerClasses' = FooterClassesAfter(footerClasses, oldContentTheme, contentTheme)
        /\ dataTheme' = appTheme \o contentTheme
        /\ iframeClasses' = IF applyNew THEN iframe1 \cup {contentTheme} ELSE iframe1
        /\ sheets' = IF applyNew /\ docPresent THEN Append(sheets1, SheetHref(contentTheme)) ELSE sheets1
        /\ lastTheme' = theme
        /\ lastDark' = dark
        /\ afterApply' = TRUE
        /\ UNCHANGED <<docPresent, notTheme>>

ApplyAppTheme == \E theme \in Themes, dark \in BOOLEAN : applyAppTheme(theme, dark)

\* A new article is loaded into the iframe: its document is a fresh one, the app shell is untouched
LoadArticle ==
    /\ themeCalls > 0
    /\ (~docPresent \/ sheets # <<>>)
    /\ docPresent' = TRUE
    /\ sheets' = <<>>
    /\ afterApply' = FALSE
    /\ UNCHANGED <<htmlClasses, footerClasses, dataTheme, iframeClasses, lastTheme, lastDark, themeCalls, notTheme>>

ThemeInit ==
    /\ htmlClasses = {}
    /\ footerClasses = {}
    /\ dataTheme = <<>>
    /\ iframeClasses = {}
    /\ sheets = <<>>
    /\ docPresent \in BOOLEAN
    /\ lastTheme = <<>>
    /\ lastDark = FALSE
    /\ themeCalls = 0
    /\ afterApply = FALSE

(***************************************************************************)
(* systemAlert                                                             *)
(***************************************************************************)

\* The number of systemAlert calls explored
MaxAlerts == 2

\* The message and label arguments: '' stands for a missing (falsy) argument
Messages == {"", "Archive not found"}
Labels == {"", "Error"}

\* Elements that can hold the focus
Buttons == {"approveConfirm", "declineConfirm", "closeMessage"}
Focusable == Buttons \cup {"alertModal", "closeCross"}

\* A slip the executor could have: the missing message is not rejected
NewPromiseNoReject(message, isConfirm) ==
    [message |-> message, isConfirm |-> isConfirm, state |-> "pending", closedBy |-> "", closedVia |-> ""]

\* new Promise(...) up to line 53: rejected with "Missing body message" when the message is falsy.
\* closedBy and closedVia are history: the active element at the first hide after the call, and the way of closing.
NewPromise(message, isConfirm) ==
    [message |-> message, isConfirm |-> isConfirm,
     state |-> IF message = "" THEN "rejected" ELSE "pending", closedBy |-> "", closedVia |-> ""]

\* resolve(v): settles a pending promise, and is without effect on a settled one
Resolve(p, v) == IF p.state = "pending" THEN [p EXCEPT !.state = v] ELSE p

\* A slip the hide listener could have: the decline button is taken for the approve button
HideListenerSwapped(p, closeSource) ==
    IF closeSource = "declineConfirm" THEN Resolve(p, "resolved_true") ELSE Resolve(p, "resolved_false")

\* The 'hide.bs.modal' listener of one call
HideListener(p, closeSource) ==
    IF closeSource = "approveConfirm" THEN Resolve(p, "resolved_true") ELSE Resolve(p, "resolved_false")

\* The hide event: every attached listener runs, each reading document.activeElement
HideEvent(ps, listeners, closeSource, via) ==
    [i \in 1..Len(ps) |->
        LET p == IF \E k \in 1..Len(listeners) : listeners[k] = i
                 THEN HideListener(ps[i], closeSource) ELSE ps[i]
        IN  IF p.closedBy = "" THEN [p EXCEPT !.closedBy = closeSource, !.closedVia = via] ELSE p]

\* label || (isConfirm ? "Confirmation" : "Message")
DefaultLabel(label, isConfirm) ==
    IF label # "" THEN label ELSE IF isConfirm THEN "Confirmation" ELSE "Message"

systemAlert(message, label, isConfirm) ==
    /\ Len(promises) < MaxAlerts
    /\ promises' = Append(promises, NewPromise(message, isConfirm))
    /\ modalText' = [approveConfirm |-> "Confirm", declineConfirm |-> "Cancel", closeMessage |-> "Okay",
                     modalLabel |-> DefaultLabel(label, isConfirm), modalText |-> message]
    /\ btnDisplay' = [approveConfirm |-> IF isConfirm THEN "inline" ELSE "none",
                      declineConfirm |-> IF isConfirm THEN "inline" ELSE "none",
                      closeMessage |-> IF isConfirm THEN "none" ELSE "inline"]
    /\ modalShown' = TRUE
    /\ hideListeners' = Append(hideListeners, Len(promises) + 1)
    /\ keyupListeners' = Append(keyupListeners, isConfirm)
    /\ UNCHANGED <<activeElement, notAlert>>

SystemAlert == \E message \in Messages, label \in Labels, isConfirm \in BOOLEAN : systemAlert(message, label, isConfirm)

\* The user clicks one of the displayed buttons: it takes the focus and dismisses the modal
ClickButton ==
    \E b \in Buttons :
        /\ modalShown
        /\ btnDisplay[b] = "inline"
        /\ activeElement' = b
        /\ promises' = HideEvent(promises, hideListeners, b, b)
        /\ modalShown' = FALSE
        /\ UNCHANGED <<modalText, btnDisplay, hideListeners, keyupListeners, notAlert>>

\* The user clicks the backdrop (the focus goes to the modal) or the cross (the focus goes to the cross)
DismissModal ==
    \E e \in {"alertModal", "closeCross"} :
        /\ modalShown
        /\ activeElement' = e
        /\ promises' = HideEvent(promises, hideListeners, e, e)
        /\ modalShown' = FALSE
        /\ UNCHANGED <<modalText, btnDisplay, hideListeners, keyupListeners, notAlert>>

\* The user moves the focus inside the displayed modal (Tab key)
MoveFocus ==
    \E b \in Buttons :
        /\ modalShown
        /\ btnDisplay[b] = "inline"
        /\ activeElement # b
        /\ activeElement' = b
        /\ UNCHANGED <<modalShown, modalText, btnDisplay, hideListeners, keyupListeners, promises, notAlert>>

\* The button a keyup listener focuses and clicks
EnterTarget(isConfirm) == IF isConfirm THEN "approveConfirm" ELSE "closeMessage"

\* focus() takes effect on a displayed element only
FocusAfter(active, target) == IF btnDisplay[target] = "inline" THEN target ELSE active

\* document.activeElement after the keyup listeners listeners[1..n] have run
RECURSIVE ActiveAfterKeyup(_, _)
ActiveAfterKeyup(active, n) ==
    IF n = 0 THEN active ELSE FocusAfter(ActiveAfterKeyup(active, n - 1), EnterTarget(keyupListeners[n]))

\* Enter is released inside the displayed modal: every keyup listener runs in attachment order; the
\* click of the first one dismisses the modal, the clicks of the later ones find it hidden
KeyupEnter ==
    /\ modalShown
    /\ keyupListeners # <<>>
    /\ promises' = HideEvent(promises, hideListeners, ActiveAfterKeyup(activeElement, 1), "Enter")
    /\ activeElement' = ActiveAfterKeyup(activeElement, Len(keyupListeners))
    /\ modalShown' = FALSE
    /\ UNCHANGED <<modalText, btnDisplay, hideListeners, keyupListeners, notAlert>>

AlertInit ==
    /\ modalShown = FALSE
    /\ modalText = [approveConfirm |-> "", declineConfirm |-> "", closeMessage |-> "", modalLabel |-> "", modalText |-> ""]
    /\ btnDisplay = [approveConfirm |-> "none", declineConfirm |-> "none", closeMessage |-> "none"]
    /\ hideListeners = <<>>
    /\ keyupListeners = <<>>
    /\ promises = <<>>
    /\ activeElement = "body"

(***************************************************************************)
(* JavaScript values and URI encoding                                      *)
(***************************************************************************)

\* A JavaScript value: its type and its string conversion String(v), as a sequence of tokens
JNull == [t |-> "null", s |-> <<"null">>]
JUndefined == [t |-> "undefined", s |-> <<"undefined">>]
JTrue == [t |-> "boolean", s |-> <<"true">>]
JFalse == [t |-> "boolean", s |-> <<"false">>]
JStr(str) == [t |-> "string", s |-> str]
JNum(digits) == [t |-> "number", s |-> <<digits>>]

\* ToBoolean(v)
Truthy(v) ==
    CASE v.t = "boolean" -> v = JTrue
      [] v.t = "string" -> v.s # <<>>
      [] v.t = "number" -> v.s # <<"0">>
      [] OTHER -> FALSE

\* The characters (among those used here) that encodeURIComponent escapes, with their escapes
Escapes ==
    { <<";", "%3B">>, <<"=", "%3D">>, <<"&", "%26">>, <<"?", "%3F">>, <<" ", "%20">>, <<"%", "%25">>, <<":", "%3A">>,
      <<"imágen.png", "im%C3%A1gen.png">> }

EncodeToken(c) == IF \E e \in Escapes : e[1] = c THEN (CHOOSE e \in Escapes : e[1] = c)[2] ELSE c
DecodeToken(c) == IF \E e \in Escapes : e[2] = c THEN (CHOOSE e \in Escapes : e[2] = c)[1] ELSE c

encodeURIComponent(str) == [i \in 1..Len(str) |-> EncodeToken(str[i])]
decodeURIComponent(str) == [i \in 1..Len(str) |-> DecodeToken(str[i])]

(***************************************************************************)
(* document.cookie and localStorage                                        *)
(***************************************************************************)

FarFuture == "Fri, 31 Dec 9999 23:59:59 GMT"
Epoch == "Thu, 01 Jan 1970 00:00:00 GMT"

\* The document.cookie getter: name=value pairs joined by '; '
RECURSIVE DocumentCookie(_)
DocumentCookie(cookies) ==
    IF cookies = <<>> THEN <<>>
    ELSE LET first == cookies[1].name \o <<"=">> \o cookies[1].value
         IN  IF Len(cookies) = 1 THEN first ELSE first \o <<";", " ">> \o DocumentCookie(Tail(cookies))

\* The cookies without the ones named name: what an assignment with a past expiry date leaves
RECURSIVE WithoutCookie(_, _)
WithoutCookie(cookies, name) ==
    IF cookies = <<>> THEN <<>>
    ELSE IF cookies[1].name = name THEN WithoutCookie(Tail(cookies), name)
    ELSE <<cookies[1]>> \o WithoutCookie(Tail(cookies), name)

\* The document.cookie setter, given 'name=value;attributes': the cookie of that name is created, or
\* replaced in place, or removed when the expiry date is in the past; nothing happens when cookies are off
CookieAssign(cookies, str, cookiesWork) ==
    LET semi == IndexOf(str, ";")
        nameValue == IF semi = 0 THEN str ELSE SubSeq(str, 1, semi - 1)
        attributes == IF semi = 0 THEN <<>> ELSE SubSeq(str, semi + 1, Len(str))
        eq == IndexOf(nameValue, "=")
        name == SubSeq(nameValue, 1, eq - 1)
        value == SubSeq(nameValue, eq + 1, Len(nameValue))
        expired == \E i \in 1..Len(attributes) : attributes[i] = Epoch
    IN  IF ~cookiesWork THEN cookies
        ELSE IF expired THEN WithoutCookie(cookies, name)
        ELSE IF \E i \in 1..Len(cookies) : cookies[i].name = name
             THEN [i \in 1..Len(cookies) |->
                      IF cookies[i].name = name THEN [name |-> name, value |-> value] ELSE cookies[i]]
        ELSE Append(cookies, [name |-> name, value |-> value])

\* localStorage.getItem(key)
GetItem(storage, key) == IF key \in DOMAIN storage THEN JStr(storage[key]) ELSE JNull

\* localStorage.setItem(key, val): the value is stored as a string
SetItem(storage, key, val) ==
    [k \in DOMAIN storage \cup {key} |-> IF k = key THEN val.s ELSE storage[k]]

\* An empty localStorage
EmptyStorage == [k \in {} |-> <<>>]

(***************************************************************************)
(* getSetting and setSetting (init.js)                                     *)
(***************************************************************************)

K_storeType == <<"storeType">>
K_keyPrefix == <<"keyPrefix">>
K_contentInjectionMode == <<"contentInjectionMode">>
\* 'appCache' is spelled in two tokens, so that its suffix 'Cache' can be a setting name of its own
K_appCache == <<"app", "Cache">>
K_maxSearchResultsSize == <<"maxSearchResultsSize">>

\* The first index at or after i of a token of str that is c, Len(str) + 1 when there is none
RECURSIVE NextIndex(_, _, _)
NextIndex(str, c, i) ==
    IF i > Len(str) \/ str[i] = c THEN i ELSE NextIndex(str, c, i + 1)

\* The first index at or after i of a token of str that is not c
RECURSIVE SkipAll(_, _, _)
SkipAll(str, c, i) ==
    IF i > Len(str) \/ str[i] # c THEN i ELSE SkipAll(str, c, i + 1)

\* The places where new RegExp('(?:^|;)\\s*' + name + '=([^;]+)(?:;|$)') matches doc: the index of
\* the first token of the captured group, for each match
CookieMatches(doc, name) ==
    { v \in 1..Len(doc) :
        /\ doc[v] # ";"
        /\ \E i \in 1..Len(doc) :
              /\ (i = 1 \/ doc[i - 1] = ";")
              /\ LET j == SkipAll(doc, " ", i)
                 IN  /\ MatchesAt(doc, name \o <<"=">>, j)
                     /\ v = j + Len(name) + 1 }

\* document.cookie.match(regexp): the captured group of the leftmost match, decoded, or null
CookieValue(doc, name) ==
    LET found == CookieMatches(doc, name)
        v == CHOOSE x \in found : \A y \in found : x <= y
    IN  IF found = {} THEN JNull
        ELSE JStr(decodeURIComponent(SubSeq(doc, v, NextIndex(doc, ";", v) - 1)))

\* A slip the conversion of getSetting could have: 'true' and 'false' are returned as strings
ConvertResultNoBoolean(result) ==
    IF result = JNull \/ result = JStr(<<"undefined">>) THEN JNull ELSE result

\* The last line of getSetting: null and 'undefined' give null, 'true' and 'false' give booleans
ConvertResult(result) ==
    IF result = JNull \/ result = JStr(<<"undefined">>) THEN JNull
    ELSE IF result = JStr(<<"true">>) THEN JTrue
    ELSE IF result = JStr(<<"false">>) THEN JFalse
    ELSE result

getSetting(p, cookies, storage, name) ==
    LET result ==
            IF p[K_storeType] = JStr(<<"cookie">>) THEN CookieValue(DocumentCookie(cookies), name)
            ELSE IF p[K_storeType] = JStr(<<"local_storage">>) THEN GetItem(storage, p[K_keyPrefix].s \o name)
            ELSE JUndefined
    IN  ConvertResult(result)

\* setSetting(name, val): the cookies and the localStorage it leaves
setSetting(p, cookies, storage, name, val) ==
    LET booleanVal == IF val = JStr(<<"false">>) THEN JFalse ELSE IF val = JStr(<<"true">>) THEN JTrue ELSE val
    IN  [jar |-> IF p[K_storeType] = JStr(<<"cookie">>)
                 THEN CookieAssign(cookies,
                        encodeURIComponent(name) \o <<"=">> \o encodeURIComponent(val.s)
                            \o <<";", "expires", "=", FarFuture>>, TRUE)
                 ELSE cookies,
         ls |-> IF p[K_storeType] = JStr(<<"local_storage">>)
                THEN SetItem(storage, p[K_keyPrefix].s \o name, booleanVal)
                ELSE storage]

\* The setting names and values of the store's exploration
SettingNames == { K_appCache, <<"Cache">> }

SettingValues ==
    { JTrue, JFalse, JStr(<<"true">>), JStr(<<"false">>), JStr(<<"jquery">>),
      JStr(<<"a", ";", " ", "b", "=", "c">>), JStr(<<"50", "%">>) }

\* params as it is when the first getSetting is called: storeType and keyPrefix are set
StoreParams(type) ==
    [k \in {K_storeType, K_keyPrefix} |-> IF k = K_storeType THEN JStr(<<type>>) ELSE JStr(<<"kiwixjs-">>)]

SetSetting ==
    \E name \in SettingNames, val \in SettingValues :
        LET after == setSetting(params, jar, ls, name, val)
        IN  /\ jar' = after.jar
            /\ ls' = after.ls
            /\ written' = [n \in DOMAIN written \cup {name} |-> IF n = name THEN val ELSE written[n]]
            /\ readName' = <<>>
            /\ readResult' = JNull
            /\ UNCHANGED <<params, notStore>>

GetSetting ==
    \E name \in SettingNames :
        /\ readName' = name
        /\ readResult' = getSetting(params, jar, ls, name)
        /\ UNCHANGED <<jar, ls, params, written, notStore>>

StoreInit ==
    /\ jar = <<>>
    /\ ls = EmptyStorage
    /\ params \in {StoreParams("cookie"), StoreParams("local_storage")}
    /\ written = [n \in {} |-> JNull]
    /\ readName = <<>>
    /\ readResult = JNull

(***************************************************************************)
(* init.js: one page load                                                  *)
(***************************************************************************)

\* The number of key=value pairs of the query strings explored
MaxPairs == 2

K_title == <<"title">>
K_PWA_launch == <<"PWA_launch">>
K_defaultModeChangeAlertDisplayed == <<"defaultModeChangeAlertDisplayed">>
K_appTheme == <<"appTheme">>
K_referrerExtensionURL == <<"referrerExtensionURL">>
K_overrideBrowserLanguage == <<"overrideBrowserLanguage">>

JBool(b) == IF b THEN JTrue ELSE JFalse

\* A slip getBestAvailableStorageAPI could have: localStorage is preferred even while the settings
\* are still held in cookies
getBestAvailableStorageAPINoCookieCheck(e, cookies) ==
    [type |-> IF e.lsUsable THEN "local_storage" ELSE IF e.cookiesWork THEN "cookie" ELSE "none",
     jar |-> cookies]

\* getBestAvailableStorageAPI: the type it returns and the cookies it leaves.  A browser with cookies
\* turned off ignores the writes, and its document.cookie is empty.
getBestAvailableStorageAPI(e, cookies) ==
    LET localStorageTest == e.lsUsable
        jar1 == CookieAssign(cookies,
                    <<"tempKiwixCookieTest", "=", "working", ";", " ", "expires", "=", FarFuture,
                      ";", " ", "SameSite", "=", "Strict">>, e.cookiesWork)
        kiwixCookieTest == Search(DocumentCookie(jar1), <<"tempKiwixCookieTest", "=", "working">>)
        jar2 == CookieAssign(jar1,
                    <<"tempKiwixCookieTest", "=", ";", " ", "expires", "=", Epoch,
                      ";", " ", "SameSite", "=", "Strict">>, e.cookiesWork)
        modeInCookie == \/ Search(DocumentCookie(jar2), K_contentInjectionMode \o <<"=", "jquery">>)
                        \/ Search(DocumentCookie(jar2), K_contentInjectionMode \o <<"=", "serviceworker">>)
        type0 == IF kiwixCookieTest THEN "cookie" ELSE "none"
    IN  [type |-> IF localStorageTest /\ ~modeInCookie THEN "local_storage" ELSE type0, jar |-> jar2]

\* The properties of params set by lines 42 to 79
ParamNames ==
    { <<"appVersion">>, <<"PWAServer">>, K_storeType, K_keyPrefix, <<"hideActiveContentWarning">>,
      <<"showUIAnimations">>, K_maxSearchResultsSize, <<"assetsCache">>, K_appCache, K_appTheme,
      <<"useHomeKeyToFocusSearchBar">>, <<"openExternalLinksInNewTabs">>, K_overrideBrowserLanguage,
      <<"disableDragAndDrop">>, K_referrerExtensionURL, K_defaultModeChangeAlertDisplayed,
      K_contentInjectionMode, <<"useCanvasElementsForWebpTranscoding">> }

\* a || b
OrElse(a, b) == IF Truthy(a) THEN a ELSE b

\* A slip the default of contentInjectionMode could have: the test of the Service Worker API is inverted
DefaultInjectionModeInverted(swAvail) == IF swAvail THEN JStr(<<"jquery">>) ELSE JStr(<<"serviceworker">>)

\* ('serviceWorker' in navigator) ? 'serviceworker' : 'jquery'
DefaultInjectionMode(swAvail) == IF swAvail THEN JStr(<<"serviceworker">>) ELSE JStr(<<"jquery">>)

\* Lines 42 to 79: params as set from the settings store, together with the defaults
ReadParams(type, cookies, storage, e) ==
    LET p0 == StoreParams(type)
        get(name) == getSetting(p0, cookies, storage, name)
    IN  [k \in ParamNames |->
            CASE k = <<"appVersion">> -> JStr(<<"3", ".", "10", ".", "0">>)
              [] k = <<"PWAServer">> -> JStr(<<"https", ":", "//browser-extension.kiwix.org/current/">>)
              [] k = K_storeType -> p0[K_storeType]
              [] k = K_keyPrefix -> p0[K_keyPrefix]
              [] k = <<"hideActiveContentWarning">> -> JBool(get(k) = JTrue)
              [] k = <<"showUIAnimations">> -> JBool(get(k) # JFalse)
              [] k = K_maxSearchResultsSize -> OrElse(get(k), JNum("25"))
              [] k = <<"assetsCache">> -> JBool(get(k) # JFalse)
              [] k = K_appCache -> JBool(get(k) # JFalse)
              [] k = K_appTheme -> OrElse(get(k), JStr(<<"light">>))
              [] k = <<"useHomeKeyToFocusSearchBar">> -> JBool(get(k) = JTrue)
              [] k = <<"openExternalLinksInNewTabs">> -> JBool(get(k) # JFalse)
              [] k = K_overrideBrowserLanguage -> get(<<"languageOverride">>)
              [] k = <<"disableDragAndDrop">> -> JBool(get(k) = JTrue)
              [] k = K_referrerExtensionURL -> get(k)
              [] k = K_defaultModeChangeAlertDisplayed -> get(k)
              [] k = K_contentInjectionMode -> OrElse(get(k), DefaultInjectionMode(e.swAvail))
              [] OTHER -> JNull]

\* The matches of /[?&]([^=]+)=([^&]+)/g in str from index pos on, in order: the two captured groups
RECURSIVE QueryMatches(_, _)
QueryMatches(str, pos) ==
    LET starts == { i \in pos..Len(str) :
                      /\ str[i] \in {"?", "&"}
                      /\ i + 1 <= Len(str) /\ str[i + 1] # "="
                      /\ LET eq == NextIndex(str, "=", i + 1)
                         IN  eq + 1 <= Len(str) /\ str[eq + 1] # "&" }
        i == CHOOSE x \in starts : \A y \in starts : x <= y
        eq == NextIndex(str, "=", i + 1)
        end == NextIndex(str, "&", eq + 1) - 1
    IN  IF starts = {} THEN <<>>
        ELSE <<[key |-> SubSeq(str, i + 1, eq - 1), val |-> SubSeq(str, eq + 1, end)]>>
                \o QueryMatches(str, end + 1)

\* paramVal === 'true' || (paramVal === 'false' ? false : paramVal)
BooleanIfTrueFalse(str) ==
    IF str = <<"true">> THEN JTrue ELSE IF str = <<"false">> THEN JFalse ELSE JStr(str)

\* obj[key] = val
Put(obj, key, val) == [k \in DOMAIN obj \cup {key} |-> IF k = key THEN val ELSE obj[k]]

\* A slip overrideParams could have: the 'title' key is applied like any other
ApplyOneOverrideWithTitle(st, m) ==
    LET paramKey == decodeURIComponent(m.key)
        paramVal == BooleanIfTrueFalse(decodeURIComponent(m.val))
        stored == setSetting(st.params, st.jar, st.ls, paramKey, paramVal)
    IN  [params |-> Put(st.params, paramKey, paramVal), jar |-> stored.jar, ls |-> stored.ls]

\* The body of the loop of overrideParams for one match, on st = [params, jar, ls]
ApplyOneOverride(st, m) ==
    LET paramKey == decodeURIComponent(m.key)
        paramVal == BooleanIfTrueFalse(decodeURIComponent(m.val))
        stored == setSetting(st.params, st.jar, st.ls, paramKey, paramVal)
    IN  IF paramKey # K_title
        THEN [params |-> Put(st.params, paramKey, paramVal), jar |-> stored.jar, ls |-> stored.ls]
        ELSE st

\* The loop of overrideParams over the matches
RECURSIVE overrideParams(_, _)
overrideParams(st, matches) ==
    IF matches = <<>> THEN st ELSE overrideParams(ApplyOneOverride(st, Head(matches)), Tail(matches))

\* A slip line 126 could have: the app cache parameter is left as the override set it
AppCacheAsOverridden(p) == p[K_appCache]

\* Line 126: params.contentInjectionMode === 'jquery' ? true : params.appCache
AppCacheInJQueryMode(p) ==
    IF p[K_contentInjectionMode] = JStr(<<"jquery">>) THEN JTrue ELSE p[K_appCache]

\* Lines 131 to 141: the controls, from params.  A checkbox takes a boolean, a value or a text a string.
\* A property that is not set reads undefined.
Prop(p, k) == IF k \in DOMAIN p THEN p[k] ELSE JUndefined

SetControls(p) ==
    [hideActiveContentWarningCheck |-> JBool(Truthy(Prop(p, <<"hideActiveContentWarning">>))),
     disableDragAndDropCheck |-> JBool(Truthy(Prop(p, <<"disableDragAndDrop">>))),
     showUIAnimationsCheck |-> JBool(Truthy(Prop(p, <<"showUIAnimations">>))),
     titleSearchRange |-> JStr(Prop(p, K_maxSearchResultsSize).s),
     titleSearchRangeVal |-> JStr(Prop(p, K_maxSearchResultsSize).s),
     appThemeSelect |-> JStr(Prop(p, K_appTheme).s),
     useHomeKeyToFocusSearchBarCheck |-> JBool(Truthy(Prop(p, <<"useHomeKeyToFocusSearchBar">>))),
     openExternalLinksInNewTabsCheck |-> JBool(Truthy(Prop(p, <<"openExternalLinksInNewTabs">>))),
     languageSelector |-> JStr(OrElse(Prop(p, K_overrideBrowserLanguage), JStr(<<"default">>)).s),
     bypassAppCacheCheck |-> JBool(~Truthy(Prop(p, K_appCache))),
     appVersion |-> JStr(<<"Kiwix", " ">> \o Prop(p, <<"appVersion">>).s)]

\* The controls as the page has them before init.js sets them
NoControls ==
    [hideActiveContentWarningCheck |-> JUndefined, disableDragAndDropCheck |-> JUndefined,
     showUIAnimationsCheck |-> JUndefined, titleSearchRange |-> JUndefined, titleSearchRangeVal |-> JUndefined,
     appThemeSelect |-> JUndefined, useHomeKeyToFocusSearchBarCheck |-> JUndefined,
     openExternalLinksInNewTabsCheck |-> JUndefined, languageSelector |-> JUndefined,
     bypassAppCacheCheck |-> JUndefined, appVersion |-> JUndefined]

\* /PWA_launch=/.test(str)
HasPwaLaunch(str) == Search(str, K_PWA_launch \o <<"=">>)

\* /PWA_launch=([^&]+)/.exec(str): the index of the first token of the captured group of the leftmost
\* match, 0 when there is no match (exec returns null)
PwaLaunchMatch(str) ==
    LET found == { v \in 3..Len(str) :
                     MatchesAt(str, K_PWA_launch \o <<"=">>, v - 2) /\ str[v] # "&" }
    IN  IF found = {} THEN 0 ELSE CHOOSE x \in found : \A y \in found : x <= y

\* match[1]
PwaLaunchValue(str) ==
    SubSeq(str, PwaLaunchMatch(str), NextIndex(str, "&", PwaLaunchMatch(str)) - 1)

\* A slip the launch registration could have: the alert flag is set whatever the launch value
RegisterPwaLaunchAlways(storage, prefix, value) ==
    SetItem(SetItem(storage, prefix \o K_PWA_launch, JStr(value)),
            prefix \o K_defaultModeChangeAlertDisplayed, JTrue)

\* Lines 198 to 200: localStorage after the launch value is registered
RegisterPwaLaunch(storage, prefix, value) ==
    LET stored == SetItem(storage, prefix \o K_PWA_launch, JStr(value))
    IN  IF value = <<"success">>
        THEN SetItem(stored, prefix \o K_defaultModeChangeAlertDisplayed, JTrue)
        ELSE stored

\* Lines 34 to 122: the store type is detected, params is read from the store, the query string
\* overrides are applied.  (The hidden frame that tells the extension of a launch of the PWA,
\* lines 105 to 121, touches none of this state.)
RunConfiguration ==
    /\ pc = "load"
    /\ LET api == getBestAvailableStorageAPI(env, jar)
           st == overrideParams([params |-> ReadParams(api.type, api.jar, ls, env), jar |-> api.jar, ls |-> ls],
                                QueryMatches(search, 1))
       IN  /\ params' = st.params
           /\ jar' = st.jar
           /\ ls' = st.ls
    /\ pc' = "overridden"
    /\ UNCHANGED <<env, store0, pairs, search, ui, webpTest, webpScript, webpMachine, notLoad>>

\* Lines 126 to 225, the rest of the script, which runs on without a pause: the app cache bypass is
\* turned off in jQuery mode, the controls are set, and either the launch of the PWA is registered or
\* the native WebP test is started.  An exception (localStorage that cannot be used, a PWA_launch=
\* without value) ends the script.
RunRemainder ==
    /\ pc = "overridden"
    /\ params' = [params EXCEPT ![K_appCache] = AppCacheInJQueryMode(params)]
    /\ ui' = SetControls(params')
    /\ IF HasPwaLaunch(search)
       THEN IF PwaLaunchMatch(search) = 0 \/ ~env.lsUsable
            THEN pc' = "crashed" /\ UNCHANGED <<ls, webpTest, webpMachine>>
            ELSE /\ ls' = RegisterPwaLaunch(ls, params[K_keyPrefix].s, PwaLaunchValue(search))
                 /\ pc' = "done"
                 /\ UNCHANGED <<webpTest, webpMachine>>
       ELSE /\ webpMachine' = "false"
            /\ webpTest' = "pending"
            /\ pc' = "done"
            /\ UNCHANGED ls
    /\ UNCHANGED <<jar, env, store0, pairs, search, webpScript, notLoad>>

\* webP.onload or webP.onerror: the callback is given webP.height === 2, which is the browser's to
\* decide, and without native support it appends the script of the polyfill
WebpTestEnds ==
    /\ webpTest = "pending"
    /\ \E support \in BOOLEAN :
        /\ webpTest' = IF support THEN "native" ELSE "missing"
        /\ webpScript' = IF support THEN webpScript ELSE "loading"
    /\ UNCHANGED <<jar, ls, params, env, store0, pairs, search, pc, ui, webpMachine, notLoad>>

\* webpScript.onload
WebpScriptLoads ==
    /\ webpScript = "loading"
    /\ webpScript' = "loaded"
    /\ webpMachine' = "machine"
    /\ UNCHANGED <<jar, ls, params, env, store0, pairs, search, pc, ui, webpTest, notLoad>>

\* The settings the stores hold when the page is loaded: '' stands for a setting that is not stored
StoredSettings ==
    [loc : {"cookie", "local_storage"},
     mode : {"", "jquery", "serviceworker"},
     appCache : {"", "false"},
     maxSearch : {"", "30"}]

\* The names and values of the settings of s that are stored
StoredEntries(s) ==
    (IF s.mode = "" THEN {} ELSE {<<K_contentInjectionMode, <<s.mode>>>>})
        \cup (IF s.appCache = "" THEN {} ELSE {<<K_appCache, <<s.appCache>>>>})
        \cup (IF s.maxSearch = "" THEN {} ELSE {<<K_maxSearchResultsSize, <<s.maxSearch>>>>})

\* The cookies that hold the entries, in some order
RECURSIVE CookiesOf(_)
CookiesOf(entries) ==
    IF entries = {} THEN <<>>
    ELSE LET e == CHOOSE x \in entries : TRUE
         IN  <<[name |-> encodeURIComponent(e[1]), value |-> encodeURIComponent(e[2])]>>
                \o CookiesOf(entries \ {e})

\* The localStorage that holds the entries
StorageOf(entries) ==
    [k \in { <<"kiwixjs-">> \o e[1] : e \in entries } |->
        (CHOOSE e \in entries : <<"kiwixjs-">> \o e[1] = k)[2]]

\* The key/value pairs (decoded) the query strings are built from
QueryPairs ==
    { [key |-> K_title, val |-> <<"Main", " ", "Page">>],
      [key |-> K_appCache, val |-> <<"false">>],
      [key |-> K_appCache, val |-> <<"true">>],
      [key |-> K_contentInjectionMode, val |-> <<"jquery">>],
      [key |-> K_maxSearchResultsSize, val |-> <<"1000">>],
      [key |-> K_PWA_launch, val |-> <<"success">>],
      [key |-> K_PWA_launch, val |-> <<"not", " ", "yet">>] }

\* The query string of the pairs: '?k=v&k=v', keys and values encoded, '' when there is no pair
RECURSIVE QueryString(_, _)
QueryString(ps, first) ==
    IF ps = <<>> THEN <<>>
    ELSE <<IF first THEN "?" ELSE "&">> \o encodeURIComponent(ps[1].key) \o <<"=">>
            \o encodeURIComponent(ps[1].val) \o QueryString(Tail(ps), FALSE)

LoadInit ==
    /\ env \in [lsUsable : BOOLEAN, cookiesWork : BOOLEAN, swAvail : BOOLEAN]
    /\ store0 \in StoredSettings
    \* the stores hold nothing, one setting, or all of them
    /\ Cardinality(StoredEntries(store0)) \in {0, 1, 3}
    \* a store holds settings only if it works; an empty store is counted once
    /\ StoredEntries(store0) = {} => store0.loc = "cookie"
    /\ StoredEntries(store0) # {} => IF store0.loc = "cookie" THEN env.cookiesWork ELSE env.lsUsable
    /\ jar = IF store0.loc = "cookie" THEN CookiesOf(StoredEntries(store0)) ELSE <<>>
    /\ ls = IF store0.loc = "local_storage" THEN StorageOf(StoredEntries(store0)) ELSE EmptyStorage
    /\ pairs \in UNION { [1..n -> QueryPairs] : n \in 0..MaxPairs }
    /\ search = QueryString(pairs, TRUE)
    /\ params = [k \in {} |-> JNull]
    /\ pc = "load"
    /\ ui = NoControls
    /\ webpTest = "none"
    /\ webpScript = "none"
    /\ webpMachine = "undefined"
    /\ written = [n \in {} |-> JNull]
    /\ readName = <<>>
    /\ readResult = JNull

\* The page-load part of a page whose script is not looked at
LoadIdle ==
    /\ env = [lsUsable |-> TRUE, cookiesWork |-> TRUE, swAvail |-> TRUE]
    /\ store0 = [loc |-> "cookie", mode |-> "", appCache |-> "", maxSearch |-> ""]
    /\ pairs = <<>>
    /\ search = <<>>
    /\ pc = "done"
    /\ ui = NoControls
    /\ webpTest = "none"
    /\ webpScript = "none"
    /\ webpMachine = "undefined"

(***************************************************************************)
(* uiUtil.js: the evaluation of the module and feedNodeWithDataURI         *)
(***************************************************************************)

\* The number of feedNodeWithDataURI calls explored
MaxFeeds == 2

K_useCanvasElementsForWebpTranscoding == <<"useCanvasElementsForWebpTranscoding">>

\* The mimeType arguments
MimeTypes == { <<"image", "/", "webp">>, <<"IMAGE", "/", "WebP">>, <<"image", "/", "png">> }

\* The lower-case form of a token
LowerCase(c) ==
    CASE c = "IMAGE" -> "image"
      [] c = "WebP" -> "webp"
      [] OTHER -> c

\* /image\/webp/i.test(mimeType)
IsWebpMime(mimeType) ==
    Search([i \in 1..Len(mimeType) |-> LowerCase(mimeType[i])], <<"image", "/", "webp">>)

\* The truth value of the global webpMachine: undefined and false are falsy, a WebpMachine is truthy
MachineTruthy(machine) == machine = "machine"

\* Lines 27 to 34: the script of the module is evaluated, after init.js; the polyfill is made a
\* dependency only if webpMachine is set by then
EvaluateModule ==
    /\ pc = "done"
    /\ rqDef = <<>>
    /\ rqDef' = IF MachineTruthy(webpMachine) THEN <<"settingsStore", "webpHeroBundle">> ELSE <<"settingsStore">>
    /\ UNCHANGED <<moduleDefined, feeds, themeVars, alertVars, storeVars, loadVars, setupVars, urlVars>>

\* Lines 34 to 686: RequireJS has loaded the dependencies and runs the callback of define(), which
\* makes a WebpMachine of its own if there is one already (line 607)
DefineModule ==
    /\ rqDef # <<>>
    /\ ~moduleDefined
    /\ moduleDefined' = TRUE
    /\ webpMachine' = IF MachineTruthy(webpMachine) THEN "machine" ELSE webpMachine
    /\ UNCHANGED <<rqDef, feeds, themeVars, alertVars, storeVars, env, store0, pairs, search, pc, ui,
                   webpTest, webpScript, setupVars, urlVars>>

\* One more call of the callback argument, if there is one
CalledBack(f) == IF f.hasCallback THEN [f EXCEPT !.callbacks = @ + 1] ELSE f

\* Lines 103 to 116 and 129 to 141, the synchronous part of a call: with a WebpMachine and a WebP
\* mimeType the decoding is started, otherwise the callback is called and a FileReader is started
NewFeed(mimeType, hasCallback, machine) ==
    LET f == [mimeType |-> mimeType, hasCallback |-> hasCallback, state |-> "", decodes |-> 0,
              decodeOk |-> FALSE, threw |-> FALSE, callbacks |-> 0, errors |-> 0, attribute |-> "unchanged"]
    IN  IF MachineTruthy(machine) /\ IsWebpMime(mimeType)
        THEN [f EXCEPT !.state = "decoding", !.decodes = 1]
        ELSE [CalledBack(f) EXCEPT !.state = "reading"]

\* A slip the rejection handler could have: the error is logged and the callback is not called
CatchHandlerLogOnly(f) ==
    [f EXCEPT !.errors = @ + 1, !.state = "done"]

\* Lines 125 to 128, the rejection handler: the error is logged and the callback is called
CatchHandler(f) ==
    [CalledBack(f) EXCEPT !.errors = @ + 1, !.state = "done"]

\* Lines 116 to 124, the fulfilment handler: the callback is called, then the image is replaced by
\* the canvas or its attribute is set to the data URI of the canvas; either may throw
ThenHandler(f, useCanvas, throws) ==
    LET g == [CalledBack(f) EXCEPT !.decodeOk = TRUE]
    IN  IF throws THEN [g EXCEPT !.threw = TRUE, !.state = "rejected"]
        ELSE [g EXCEPT !.attribute = IF useCanvas THEN "replaced by canvas" ELSE "data URI of canvas",
                       !.state = "done"]

FeedNodeWithDataURI ==
    \E mimeType \in MimeTypes, hasCallback \in BOOLEAN :
        /\ moduleDefined
        /\ Len(feeds) < MaxFeeds
        /\ feeds' = Append(feeds, NewFeed(mimeType, hasCallback, webpMachine))
        /\ UNCHANGED <<rqDef, moduleDefined, themeVars, alertVars, storeVars, loadVars, setupVars, urlVars>>

\* webpMachine.decodeToCanvas succeeds, and the fulfilment handler runs
DecodeSucceeds ==
    \E i \in 1..Len(feeds), throws \in BOOLEAN :
        /\ feeds[i].state = "decoding"
        /\ feeds' = [feeds EXCEPT ![i] =
                        ThenHandler(@, Truthy(params[K_useCanvasElementsForWebpTranscoding]), throws)]
        /\ UNCHANGED <<rqDef, moduleDefined, themeVars, alertVars, storeVars, loadVars, setupVars, urlVars>>

\* webpMachine.decodeToCanvas rejects (a broken image, a machine that is busy): the fulfilment
\* handler is passed over
DecodeFails ==
    \E i \in 1..Len(feeds) :
        /\ feeds[i].state = "decoding"
        /\ feeds' = [feeds EXCEPT ![i].state = "rejected"]
        /\ UNCHANGED <<rqDef, moduleDefined, themeVars, alertVars, storeVars, loadVars, setupVars, urlVars>>

\* The promise returned by then() is rejected, by the decoding or by an exception of the fulfilment
\* handler: the rejection handler runs
DecodeCaught ==
    \E i \in 1..Len(feeds) :
        /\ feeds[i].state = "rejected"
        /\ feeds' = [feeds EXCEPT ![i] = CatchHandler(@)]
        /\ UNCHANGED <<rqDef, moduleDefined, themeVars, alertVars, storeVars, loadVars, setupVars, urlVars>>

\* myReader.onloadend: the attribute of the node is set to the data URI of the content
ReaderLoadEnd ==
    \E i \in 1..Len(feeds) :
        /\ feeds[i].state = "reading"
        /\ feeds' = [feeds EXCEPT ![i].attribute = "data URI of content", ![i].state = "done"]
        /\ UNCHANGED <<rqDef, moduleDefined, themeVars, alertVars, storeVars, loadVars, setupVars, urlVars>>

\* A page whose init.js has run to its end and started the native WebP test; the canvas workaround
\* is undetermined (null), on or off
FeedInit ==
    /\ rqDef = <<>>
    /\ moduleDefined = FALSE
    /\ feeds = <<>>
    /\ jar = <<>>
    /\ ls = EmptyStorage
    /\ \E useCanvas \in {JNull, JTrue, JFalse} :
            params = Put(StoreParams("local_storage"), K_useCanvasElementsForWebpTranscoding, useCanvas)
    /\ written = [n \in {} |-> JNull]
    /\ readName = <<>>
    /\ readResult = JNull
    /\ env = [lsUsable |-> TRUE, cookiesWork |-> TRUE, swAvail |-> TRUE]
    /\ store0 = [loc |-> "cookie", mode |-> "", appCache |-> "", maxSearch |-> ""]
    /\ pairs = <<>>
    /\ search = <<>>
    /\ pc = "done"
    /\ ui = NoControls
    /\ webpTest = "pending"
    /\ webpScript = "none"
    /\ webpMachine = "false"

\* The module before its script is evaluated
FeedIdle ==
    /\ rqDef = <<>>
    /\ moduleDefined = FALSE
    /\ feeds = <<>>

(***************************************************************************)
(* uiUtil.js: displayActiveContentWarning and displayFileDownloadAlert     *)
(***************************************************************************)

\* The number of calls explored of each of the two functions, and of clicks on each of the two links
MaxDisplayCalls == 3
MaxLinkClicks == 2

\* The hide buttons of the two alert boxes, the two links of the active content warning, and the
\* download link of the download alert
HideButtons == {"activeContent button[data-hide]", "downloadAlert button[data-hide]"}
Links == {"swModeLink", "stop"}
ClickTargets == HideButtons \cup Links \cup {"download link"}

\* The label a link highlights: the parent of the element named at line 254
LabelOf(id) == IF id = "stop" THEN "hideActiveContentWarningCheck" ELSE "serviceworkerModeRadio"

\* querySelector('button[data-hide]') of an alert box
HideButtonOf(box) ==
    IF box = "activeContent" THEN "activeContent button[data-hide]" ELSE "downloadAlert button[data-hide]"

\* addEventListener('click', ...) on each element of ids
AddClickListeners(listeners, ids) ==
    [e \in DOMAIN listeners |-> IF e \in ids THEN listeners[e] + 1 ELSE listeners[e]]

\* A slip the set-up could have: the listeners are attached at every call
ListenersAfterSetupEveryCall(listeners, setup, ids) == AddClickListeners(listeners, ids)

\* The listeners after a call: attached only if the flag says that the set-up was not done
ListenersAfterSetup(listeners, setup, ids) ==
    IF ~setup THEN AddClickListeners(listeners, ids) ELSE listeners

\* Lines 241 to 270
DisplayActiveContentWarning ==
    /\ displayCalls.activeContent < MaxDisplayCalls
    /\ displayCalls' = [displayCalls EXCEPT !.activeContent = @ + 1]
    /\ alertDisplay' = [alertDisplay EXCEPT !.activeContent = ""]
    /\ activeContentWarningSetup' = TRUE
    /\ clickListeners' = ListenersAfterSetup(clickListeners, activeContentWarningSetup,
                                             {"activeContent button[data-hide]"} \cup Links)
    /\ UNCHANGED <<downloadAlertSetup, highlighted, mousedownListeners, notSetup>>

\* Lines 283 to 322.  The download link is a new element at every call; it is given a click
\* listener when its click() throws and the browser has msSaveBlob.
DisplayFileDownloadAlert ==
    \E clickThrows \in BOOLEAN :
        /\ displayCalls.downloadAlert < MaxDisplayCalls
        /\ displayCalls' = [displayCalls EXCEPT !.downloadAlert = @ + 1]
        /\ alertDisplay' = [alertDisplay EXCEPT !.downloadAlert = "block"]
        /\ downloadAlertSetup' = TRUE
        /\ clickListeners' =
                [ListenersAfterSetup(clickListeners, downloadAlertSetup, {"downloadAlert button[data-hide]"})
                    EXCEPT !["download link"] = IF clickThrows THEN 1 ELSE 0]
        /\ UNCHANGED <<activeContentWarningSetup, highlighted, mousedownListeners, notSetup>>

\* The user clicks the hide button of a displayed alert box: its listeners hide the box
ClickHideButton ==
    \E box \in {"activeContent", "downloadAlert"} :
        /\ alertDisplay[box] # "none"
        /\ clickListeners[HideButtonOf(box)] > 0
        /\ alertDisplay' = [alertDisplay EXCEPT ![box] = "none"]
        /\ UNCHANGED <<activeContentWarningSetup, downloadAlertSetup, clickListeners, highlighted,
                       mousedownListeners, displayCalls, notSetup>>

\* The user clicks a link of the displayed warning: each of its listeners (lines 253 to 267) gives
\* the label a red border and attaches a mousedown listener to the label and one to the Home button
ClickLink ==
    \E id \in Links :
        /\ alertDisplay.activeContent # "none"
        /\ clickListeners[id] > 0
        /\ mousedownListeners[LabelOf(id)] < MaxLinkClicks
        /\ highlighted' = highlighted \cup {LabelOf(id)}
        /\ mousedownListeners' = [mousedownListeners EXCEPT ![LabelOf(id)] = @ + clickListeners[id]]
        /\ UNCHANGED <<activeContentWarningSetup, downloadAlertSetup, alertDisplay, clickListeners,
                       displayCalls, notSetup>>

\* The user presses the mouse on a highlighted label or on the Home button: the mousedown listeners
\* (lines 261 to 264) of the label, or all of them, take the red border away
MouseDown ==
    \E target \in {"hideActiveContentWarningCheck", "serviceworkerModeRadio", "btnHome"} :
        /\ highlighted # {}
        /\ highlighted' = IF target = "btnHome"
                          THEN { l \in highlighted : mousedownListeners[l] = 0 }
                          ELSE { l \in highlighted : l # target \/ mousedownListeners[l] = 0 }
        /\ highlighted' # highlighted
        /\ UNCHANGED <<activeContentWarningSetup, downloadAlertSetup, alertDisplay, clickListeners,
                       mousedownListeners, displayCalls, notSetup>>

\* The page before either function is called: both alert boxes are hidden
SetupInit ==
    /\ activeContentWarningSetup = FALSE
    /\ downloadAlertSetup = FALSE
    /\ alertDisplay = [activeContent |-> "none", downloadAlert |-> "none"]
    /\ clickListeners = [e \in ClickTargets |-> 0]
    /\ highlighted = {}
    /\ mousedownListeners = [l \in {"hideActiveContentWarningCheck", "serviceworkerModeRadio"} |-> 0]
    /\ displayCalls = [activeContent |-> 0, downloadAlert |-> 0]

(***************************************************************************)
(* uiUtil.js: removeUrlParameters and deriveZimUrlFromRelativeUrl          *)
(***************************************************************************)

\* The length of the urls given to removeUrlParameters, in tokens, and the number of segments of
\* the urls given to deriveZimUrlFromRelativeUrl
MaxUrlLen == 4
MaxSegments == 4

\* The index of the last occurrence of token c in s, 0 when there is none
LastIndexOf(s, c) ==
    IF \E i \in 1..Len(s) : s[i] = c
    THEN CHOOSE i \in 1..Len(s) : s[i] = c /\ \A j \in (i+1)..Len(s) : s[j] # c
    ELSE 0

\* url.replace(/\?[^?]*$/, ''): the match starts at the last '?'
RemoveQueryString(str) ==
    IF LastIndexOf(str, "?") = 0 THEN str ELSE SubSeq(str, 1, LastIndexOf(str, "?") - 1)

\* strippedUrl.replace(/#[^#;]*$/, ''): the match starts at the last '#', and there is one only if
\* no ';' follows it
RemoveAnchor(str) ==
    LET i == LastIndexOf(str, "#")
    IN  IF i = 0 \/ (\E j \in (i+1)..Len(str) : str[j] = ";") THEN str ELSE SubSeq(str, 1, i - 1)

removeUrlParameters(u) == RemoveAnchor(RemoveQueryString(u))

\* The tokens the urls given to removeUrlParameters are made of
UrlTokens == {"page", "?", "#", ";"}

RemoveUrlParameters ==
    /\ Len(results) < 2
    /\ results' = Append(results, removeUrlParameters(IF results = <<>> THEN url ELSE results[Len(results)]))
    /\ UNCHANGED <<url, base, notUrl>>

RemoveInit ==
    /\ url \in UNION { [1..n -> UrlTokens] : n \in 0..MaxUrlLen }
    /\ base = <<>>
    /\ results = <<>>

\* The segments of a path: the runs of tokens between the '/' of str
RECURSIVE Split(_)
Split(str) ==
    IF IndexOf(str, "/") = 0 THEN <<str>>
    ELSE <<SubSeq(str, 1, IndexOf(str, "/") - 1)>> \o Split(SubSeq(str, IndexOf(str, "/") + 1, Len(str)))

\* The segments joined by '/'
RECURSIVE Join(_)
Join(segments) ==
    IF segments = <<>> THEN <<>>
    ELSE IF Len(segments) = 1 THEN segments[1]
    ELSE segments[1] \o <<"/">> \o Join(Tail(segments))

\* The path without its last segment, if it has one (the URL parser's 'shorten')
Shorten(path) == IF path = <<>> THEN path ELSE SubSeq(path, 1, Len(path) - 1)

\* The path state of the URL parser: the segments from the i-th on are appended to path, a '..'
\* takes the last segment of path away, a '.' is passed over, and either leaves an empty segment
\* when it is the last one
RECURSIVE ParsePath(_, _, _)
ParsePath(path, segments, i) ==
    IF i > Len(segments) THEN path
    ELSE LET last == i = Len(segments)
             next == IF segments[i] = <<"..">>
                     THEN (IF last THEN Append(Shorten(path), <<>>) ELSE Shorten(path))
                     ELSE IF segments[i] = <<".">>
                     THEN (IF last THEN Append(path, <<>>) ELSE path)
                     ELSE Append(path, segments[i])
         IN  ParsePath(next, segments, i + 1)

\* A slip the resolution could have: the url is resolved against the base with its last segment
deriveZimUrlAgainstWholeBase(relative, basePath) ==
    IF relative = <<>> THEN basePath
    ELSE IF relative[1] = "/" THEN ParsePath(<<>>, Split(Tail(relative)), 1)
    ELSE ParsePath(basePath, Split(relative), 1)

\* The path of new URL(relative, 'http://d/' + base), or of the href of an anchor of a document
\* whose base is that: an empty url gives the path of the base, a url that starts with '/' is
\* resolved from the root, any other from the base without its last segment
deriveZimUrl(relative, basePath) ==
    IF relative = <<>> THEN basePath
    ELSE IF relative[1] = "/" THEN ParsePath(<<>>, Split(Tail(relative)), 1)
    ELSE ParsePath(Shorten(basePath), Split(relative), 1)

\* zimUrl.pathname: with the URL API the path after the host, which starts with '/'; without it
\* (line 231) the href with 'http://d/' taken away
Pathname(relative, baseUrl, hasURL) ==
    LET path == Join(deriveZimUrl(relative, ParsePath(<<>>, Split(baseUrl), 1)))
    IN  IF hasURL THEN <<"/">> \o path ELSE path

\* str.replace(/^\//, '')
WithoutLeadingSlash(str) == IF str # <<>> /\ str[1] = "/" THEN Tail(str) ELSE str

deriveZimUrlFromRelativeUrl(relative, baseUrl, hasURL) ==
    decodeURIComponent(WithoutLeadingSlash(Pathname(relative, baseUrl, hasURL)))

\* The segments of the urls, and the base urls, given to deriveZimUrlFromRelativeUrl
Segments == { <<"..">>, <<".">>, <<"Einstein">>, <<"I">>, <<"im%C3%A1gen.png">> }
Bases == { <<>>, <<"A", "/">>, <<"A", "/", "subdir1", "/", "subdir2", "/">> }

\* The result, and whether the browser has the URL API, are recorded together
DeriveZimUrlFromRelativeUrl ==
    \E hasURL \in BOOLEAN :
        /\ results = <<>>
        /\ results' = <<deriveZimUrlFromRelativeUrl(url, base, hasURL)>>
        /\ UNCHANGED <<url, base, notUrl>>

DeriveInit ==
    /\ \E n \in 0..MaxSegments, absolute \in BOOLEAN : \E segments \in [1..n -> Segments] :
            url = (IF absolute THEN <<"/">> ELSE <<>>) \o Join(segments)
    /\ base \in Bases
    /\ results = <<>>

\* No url is being worked on
UrlIdle ==
    /\ url = <<>>
    /\ base = <<>>
    /\ results = <<>>

(***************************************************************************)
(* Specifications: one per part of the program                             *)
(***************************************************************************)

\* The theme part left as the page has it before any theme is applied
ThemeIdle == ThemeInit /\ docPresent = TRUE

\* The store part of a page that uses no setting
StoreIdle ==
    /\ StoreInit
    /\ params = StoreParams("local_storage")

\* The parts of uiUtil.js that are not being used
UiUtilIdle == FeedIdle /\ SetupInit /\ UrlIdle

InitStore == StoreInit /\ ThemeIdle /\ AlertInit /\ LoadIdle /\ UiUtilIdle

NextStore == SetSetting \/ GetSetting

SpecStore == InitStore /\ [][NextStore]_vars

InitLoad == LoadInit /\ ThemeIdle /\ AlertInit /\ UiUtilIdle

NextLoad == RunConfiguration \/ RunRemainder \/ WebpTestEnds \/ WebpScriptLoads

SpecLoad == InitLoad /\ [][NextLoad]_vars

InitTheme == ThemeInit /\ AlertInit /\ StoreIdle /\ LoadIdle /\ UiUtilIdle

NextTheme == ApplyAppTheme \/ LoadArticle

SpecTheme == InitTheme /\ [][NextTheme]_vars

InitAlert == AlertInit /\ ThemeIdle /\ StoreIdle /\ LoadIdle /\ UiUtilIdle

NextAlert == SystemAlert \/ ClickButton \/ DismissModal \/ MoveFocus \/ KeyupEnter

SpecAlert == InitAlert /\ [][NextAlert]_vars

InitFeed == FeedInit /\ ThemeIdle /\ AlertInit /\ SetupInit /\ UrlIdle

NextFeed ==
    \/ WebpTestEnds \/ WebpScriptLoads \/ EvaluateModule \/ DefineModule
    \/ FeedNodeWithDataURI \/ DecodeSucceeds \/ DecodeFails \/ DecodeCaught \/ ReaderLoadEnd

SpecFeed == InitFeed /\ [][NextFeed]_vars

InitSetup == SetupInit /\ ThemeIdle /\ AlertInit /\ StoreIdle /\ LoadIdle /\ FeedIdle /\ UrlIdle

NextSetup == DisplayActiveContentWarning \/ DisplayFileDownloadAlert \/ ClickHideButton \/ ClickLink \/ MouseDown

SpecSetup == InitSetup /\ [][NextSetup]_vars

InitRemove == RemoveInit /\ ThemeIdle /\ AlertInit /\ StoreIdle /\ LoadIdle /\ FeedIdle /\ SetupInit

NextRemove == RemoveUrlParameters

SpecRemove == InitRemove /\ [][NextRemove]_vars

InitDerive == DeriveInit /\ ThemeIdle /\ AlertInit /\ StoreIdle /\ LoadIdle /\ FeedIdle /\ SetupInit

NextDerive == DeriveZimUrlFromRelativeUrl

SpecDerive == InitDerive /\ [][NextDerive]_vars

(***************************************************************************)
(* Claims about applyAppTheme                                              *)
(***************************************************************************)

\* The non-auto themes, each with the app part and the content part it is made of
NonAutoThemes ==
    { [theme |-> S_light, app |-> S_light, content |-> <<>>],
      [theme |-> S_dark, app |-> S_dark, content |-> <<>>],
      [theme |-> S_dark \o S__invert, app |-> S_dark, content |-> S__invert],
      [theme |-> S_dark \o S__mwInvert, app |-> S_dark, content |-> S__mwInvert] }

\* C1: after applyAppTheme(T) with a non-auto theme T = app or app_content, the html element
\* carries the class app, the footer carries the class _content ('_light' when T has no content
\* part), and html data-theme is app followed by the content part.
C1_ThemeClasses ==
    \A t \in NonAutoThemes :
        (themeCalls > 0 /\ lastTheme = t.theme) =>
            /\ t.app \in htmlClasses
            /\ (IF t.content = <<>> THEN S__light ELSE t.content) \in footerClasses
            /\ dataTheme = t.app \o t.content

\* C1 witness: 'dark_invert' was applied after another theme, and html carries 'dark', the footer '_invert'
C1_Witness ==
    /\ themeCalls > 1
    /\ lastTheme = S_dark \o S__invert
    /\ S_dark \in htmlClasses
    /\ S__invert \in footerClasses
    /\ S__light \notin footerClasses

(***************************************************************************)
(* Claims about systemAlert                                                *)
(***************************************************************************)

\* C2: the promise of a systemAlert call (made with a message) resolves to true if and only if the
\* modal was hidden while the approve button was the active element; it stays pending until the
\* modal is hidden, and closing through Cancel, Okay, the backdrop or the cross resolves it to false.
C2_ResolvesByCloseSource ==
    \A i \in 1..Len(promises) :
        promises[i].message # "" =>
            /\ promises[i].state = "resolved_true" <=> promises[i].closedBy = "approveConfirm"
            /\ promises[i].state = "pending" <=> promises[i].closedBy = ""
            /\ promises[i].closedVia \in {"declineConfirm", "closeMessage", "alertModal", "closeCross"}
                   => promises[i].state = "resolved_false"

\* C2 witness: of two confirm dialogs, one was closed through Confirm and resolved to true, the
\* other through Cancel and resolved to false
C2_Witness ==
    /\ Len(promises) = 2
    /\ \E i, j \in 1..2 :
        /\ promises[i].message # "" /\ promises[i].closedVia = "approveConfirm" /\ promises[i].state = "resolved_true"
        /\ promises[j].message # "" /\ promises[j].closedVia = "declineConfirm" /\ promises[j].state = "resolved_false"

\* C3: the promise of a systemAlert call with a missing message is rejected, and stays rejected
\* whatever way the modal is closed afterwards.
C3_MissingMessageRejected ==
    \A i \in 1..Len(promises) : promises[i].message = "" => promises[i].state = "rejected"

\* C3 witness: a call without message whose modal was afterwards closed through Confirm
C3_Witness ==
    \E i \in 1..Len(promises) :
        /\ promises[i].message = ""
        /\ promises[i].closedBy = "approveConfirm"
        /\ promises[i].state = "rejected"

(***************************************************************************)
(* Claims about the settings store                                         *)
(***************************************************************************)

\* What a written value is read back as: the strings 'true' and 'false' as booleans
ReadBackAs(val) ==
    IF val = JStr(<<"true">>) THEN JTrue ELSE IF val = JStr(<<"false">>) THEN JFalse ELSE val

\* C4: settings are last-write-wins: with one store type ('cookie' or 'local_storage'), getSetting(name)
\* returns the value of the most recent setSetting(name, v), v a boolean or a non-empty string other
\* than 'undefined', 'true' and 'false' being read back as booleans, and null for a name never written.
C4_LastWriteWins ==
    readName # <<>> =>
        readResult = IF readName \in DOMAIN written THEN ReadBackAs(written[readName]) ELSE JNull

\* C4 witness: in the cookie store, 'Cache' was written after 'appCache', with a value holding
\* characters that are escaped, and is read back as written
C4_Witness ==
    /\ params[K_storeType] = JStr(<<"cookie">>)
    /\ Len(jar) = 2
    /\ jar[1].name = K_appCache
    /\ readName = <<"Cache">>
    /\ written[<<"Cache">>] = JStr(<<"a", ";", " ", "b", "=", "c">>)
    /\ readResult = written[<<"Cache">>]

(***************************************************************************)
(* Claims about one page load                                              *)
(***************************************************************************)

\* init.js has run to its end, or to an uncaught exception
ScriptEnded == pc \in {"done", "crashed"}

\* The keys of the query string's pairs, and the value of the last pair and of the first pair with key k
QueryKeys == { pairs[i].key : i \in 1..Len(pairs) }
LastValueOf(k) ==
    pairs[CHOOSE i \in 1..Len(pairs) : pairs[i].key = k /\ \A j \in (i+1)..Len(pairs) : pairs[j].key # k].val
FirstValueOf(k) ==
    pairs[CHOOSE i \in 1..Len(pairs) : pairs[i].key = k /\ \A j \in 1..(i-1) : pairs[j].key # k].val

\* A value as the query string and a cookie spell it: the space is escaped
Escaped(val) == [i \in 1..Len(val) |-> IF val[i] = " " THEN "%20" ELSE val[i]]

\* 'true' and 'false' as booleans, any other text as a string
AsBoolean(val) ==
    IF val = <<"true">> THEN JTrue ELSE IF val = <<"false">> THEN JFalse ELSE JStr(val)

\* The settings store in use holds val under k
HeldByStore(k, val) ==
    /\ params[K_storeType] = JStr(<<"cookie">>) =>
            /\ \E i \in 1..Len(jar) : jar[i].name = k /\ jar[i].value = Escaped(val)
            /\ Cardinality({ i \in 1..Len(jar) : jar[i].name = k }) = 1
    /\ params[K_storeType] = JStr(<<"local_storage">>) =>
            /\ <<"kiwixjs-">> \o k \in DOMAIN ls
            /\ ls[<<"kiwixjs-">> \o k] = val

\* C5: overrideParams applies every key=value pair of the query string whose key is not 'title': the
\* value is written to the settings store and to params[key], 'true' and 'false' as booleans; a pair
\* with key 'title' changes neither; of the pairs with one key, the last one is the one left.
C5_OverridesApplied ==
    pc = "overridden" =>
        /\ \A k \in QueryKeys \ {K_title} :
              /\ k \in DOMAIN params
              /\ params[k] = AsBoolean(LastValueOf(k))
              /\ HeldByStore(k, LastValueOf(k))
        /\ K_title \notin DOMAIN params
        /\ \A i \in 1..Len(jar) : jar[i].name # K_title
        /\ <<"kiwixjs-">> \o K_title \notin DOMAIN ls

\* C5 witness: 'appCache=false&appCache=true' given to a page whose cookies held appCache=false
C5_Witness ==
    /\ pc = "overridden"
    /\ Len(pairs) = 2
    /\ pairs[1] = [key |-> K_appCache, val |-> <<"false">>]
    /\ pairs[2] = [key |-> K_appCache, val |-> <<"true">>]
    /\ store0.loc = "cookie" /\ store0.appCache = "false"
    /\ params[K_storeType] = JStr(<<"cookie">>)
    /\ params[K_appCache] = JTrue
    /\ \E i \in 1..Len(jar) : jar[i] = [name |-> K_appCache, value |-> <<"true">>]

\* C6: after init.js has run, contentInjectionMode 'jquery' implies appCache true, and the bypass
\* checkbox unchecked, whatever appCache value is stored or given in the query string.
C6_JQueryKeepsAppCache ==
    (ScriptEnded /\ params[K_contentInjectionMode] = JStr(<<"jquery">>)) =>
        /\ params[K_appCache] = JTrue
        /\ ui.bypassAppCacheCheck = JFalse

\* C6 witness: the stores held appCache=false and the query string is
\* 'appCache=false&contentInjectionMode=jquery'
C6_Witness ==
    /\ pc = "done"
    /\ store0.appCache = "false"
    /\ Len(pairs) = 2
    /\ pairs[1] = [key |-> K_appCache, val |-> <<"false">>]
    /\ pairs[2] = [key |-> K_contentInjectionMode, val |-> <<"jquery">>]
    /\ params[K_contentInjectionMode] = JStr(<<"jquery">>)
    /\ params[K_appCache] = JTrue

\* The number a value converts to (-1: not one of the numbers met here)
NumberOf(val) ==
    CASE val.s = <<"25">> -> 25
      [] val.s = <<"30">> -> 30
      [] val.s = <<"1000">> -> 1000
      [] OTHER -> -1

\* C7: after init.js has run, maxSearchResultsSize is in the range 5 to 50, and is 25 when no value
\* is stored, for every content of the store and every query string.
C7_SearchSizeInRange ==
    ScriptEnded =>
        /\ NumberOf(params[K_maxSearchResultsSize]) \in 5..50
        /\ store0.maxSearch = "" => NumberOf(params[K_maxSearchResultsSize]) = 25

\* C8: without a query string override, contentInjectionMode after init is the stored one when one
\* is stored, and otherwise 'serviceworker' when the Service Worker API is available, 'jquery' when not.
C8_InjectionModeDefault ==
    (pc # "load" /\ K_contentInjectionMode \notin QueryKeys) =>
        params[K_contentInjectionMode] =
            IF store0.mode # "" THEN JStr(<<store0.mode>>)
            ELSE IF env.swAvail THEN JStr(<<"serviceworker">>) ELSE JStr(<<"jquery">>)

\* C8 witness: nothing stored, no Service Worker API, and a query string that sets another parameter
C8_Witness ==
    /\ pc = "done"
    /\ store0.mode = ""
    /\ ~env.swAvail
    /\ pairs = <<[key |-> K_appCache, val |-> <<"false">>]>>
    /\ params[K_contentInjectionMode] = JStr(<<"jquery">>)

\* C9: getBestAvailableStorageAPI returns 'local_storage' exactly when localStorage is usable and the
\* cookies hold no contentInjectionMode=jquery|serviceworker; otherwise 'cookie' when a test cookie
\* can be written and read back, and 'none' when not; so 'cookie' whenever cookies work and
\* contentInjectionMode is still in a cookie, even if localStorage is usable.
C9_BestStorageAPI ==
    pc # "load" =>
        params[K_storeType] =
            IF env.lsUsable /\ ~(store0.loc = "cookie" /\ store0.mode # "") THEN JStr(<<"local_storage">>)
            ELSE IF env.cookiesWork THEN JStr(<<"cookie">>)
            ELSE JStr(<<"none">>)

\* C9 witness: localStorage is usable, and the cookies still hold contentInjectionMode: 'cookie'
C9_Witness ==
    /\ pc = "overridden"
    /\ env.lsUsable
    /\ store0.loc = "cookie" /\ store0.mode = "serviceworker"
    /\ params[K_storeType] = JStr(<<"cookie">>)
    /\ \A i \in 1..Len(jar) : jar[i].name # <<"tempKiwixCookieTest">>

\* C10: when the query string contains PWA_launch=v (v the first such value, as the query string
\* spells it), a script that has run to its end has stored v in localStorage under
\* 'kiwixjs-PWA_launch', and 'kiwixjs-defaultModeChangeAlertDisplayed' (which nothing set before) is
\* set, to true, if and only if v is 'success'; and processing is halted: the native WebP test is
\* not started and no polyfill is loaded.
C10_PwaLaunchRegistered ==
    K_PWA_launch \in QueryKeys =>
        /\ pc = "done" =>
              /\ <<"kiwixjs-">> \o K_PWA_launch \in DOMAIN ls
              /\ ls[<<"kiwixjs-">> \o K_PWA_launch] = Escaped(FirstValueOf(K_PWA_launch))
              /\ <<"kiwixjs-">> \o K_defaultModeChangeAlertDisplayed \in DOMAIN ls
                    <=> FirstValueOf(K_PWA_launch) = <<"success">>
              /\ <<"kiwixjs-">> \o K_defaultModeChangeAlertDisplayed \in DOMAIN ls
                    => ls[<<"kiwixjs-">> \o K_defaultModeChangeAlertDisplayed] = <<"true">>
        /\ webpTest = "none" /\ webpScript = "none" /\ webpMachine = "undefined"

\* C10 witness: 'PWA_launch=not%20yet&PWA_launch=success': the first value is stored as spelled, and
\* the alert flag is not set
C10_Witness ==
    /\ pc = "done"
    /\ Len(pairs) = 2
    /\ pairs[1] = [key |-> K_PWA_launch, val |-> <<"not", " ", "yet">>]
    /\ pairs[2] = [key |-> K_PWA_launch, val |-> <<"success">>]
    /\ ls[<<"kiwixjs-">> \o K_PWA_launch] = <<"not", "%20", "yet">>
    /\ <<"kiwixjs-">> \o K_defaultModeChangeAlertDisplayed \notin DOMAIN ls
    /\ webpTest = "none"

(***************************************************************************)
(* Claims about feedNodeWithDataURI and the WebP polyfill                  *)
(***************************************************************************)

\* C11: for every feedNodeWithDataURI call with a callback, the callback is invoked exactly once:
\* never more than once, and once when the FileReader is started and when the call has come to its
\* end, on the path without decoding, after a decoding that succeeded (the replacement of the image
\* or the reading of the canvas throwing included) and after one that failed.
C11_CallbackExactlyOnce ==
    \A i \in 1..Len(feeds) :
        feeds[i].hasCallback =>
            /\ feeds[i].callbacks <= 1
            /\ feeds[i].state \in {"reading", "done"} => feeds[i].callbacks = 1

\* C12: when webpMachine.decodeToCanvas rejects, the failure is logged, the callback is called, the
\* attribute of the node is left as it was, and the decoding is not tried again.
C12_DecodeFailureLoggedAndPassed ==
    \A i \in 1..Len(feeds) :
        (feeds[i].decodes > 0 /\ ~feeds[i].decodeOk /\ feeds[i].state \in {"rejected", "done"}) =>
            /\ feeds[i].attribute = "unchanged"
            /\ feeds[i].decodes = 1
            /\ feeds[i].state = "rejected" => feeds[i].errors = 0 /\ feeds[i].callbacks = 0
            /\ feeds[i].state = "done" =>
                    /\ feeds[i].errors = 1
                    /\ feeds[i].callbacks = IF feeds[i].hasCallback THEN 1 ELSE 0

\* C12 witness: two calls with a callback whose decoding failed, both at their end: each logged
\* one error and called back once
C12_Witness ==
    /\ Len(feeds) = 2
    /\ \A i \in 1..2 :
        /\ feeds[i].hasCallback
        /\ feeds[i].decodes = 1 /\ ~feeds[i].decodeOk /\ feeds[i].state = "done"
        /\ feeds[i].errors = 1 /\ feeds[i].callbacks = 1
        /\ feeds[i].attribute = "unchanged"

\* C13: in a browser without native WebP support, every feedNodeWithDataURI call with a WebP
\* mimeType decodes the content through the polyfill, and in a browser with native support no call
\* does, for every interleaving of the native test, the load of the polyfill, the evaluation of the
\* module and the calls.
C13_PolyfillIffNoNativeSupport ==
    \A i \in 1..Len(feeds) :
        /\ (webpTest = "missing" /\ feeds[i].mimeType \in {<<"image", "/", "webp">>, <<"IMAGE", "/", "WebP">>})
                => feeds[i].decodes > 0
        /\ webpTest = "native" => feeds[i].decodes = 0

(***************************************************************************)
(* Claims about the set-up of the alert boxes                              *)
(***************************************************************************)

\* C14: the attachment of listeners guarded by the set-up flags is one-time: after any number of
\* calls of displayActiveContentWarning and displayFileDownloadAlert, the hide button of each alert
\* box and the links 'swModeLink' and 'stop' carry exactly one click listener attached by the
\* function that sets them up, once it has been called (and none before).
C14_OneTimeListeners ==
    /\ \A e \in {"activeContent button[data-hide]", "swModeLink", "stop"} :
            clickListeners[e] = IF displayCalls.activeContent > 0 THEN 1 ELSE 0
    /\ clickListeners["downloadAlert button[data-hide]"] = IF displayCalls.downloadAlert > 0 THEN 1 ELSE 0

\* C14 witness: each function was called more than once, a link was clicked and a box was hidden in
\* between, and each of the four elements carries one listener
C14_Witness ==
    /\ displayCalls.activeContent > 1
    /\ displayCalls.downloadAlert > 1
    /\ highlighted # {}
    /\ alertDisplay.downloadAlert = "none"
    /\ \A e \in HideButtons \cup Links : clickListeners[e] = 1

(***************************************************************************)
(* Claims about removeUrlParameters and deriveZimUrlFromRelativeUrl        *)
(***************************************************************************)

\* C15: removeUrlParameters(url) returns the url without its parameters and anchors: the result
\* holds no '?' and no trailing anchor (a '#' followed to the end by characters other than '#' and
\* ';'), and the function applied to its own result returns that result, for every url, those with
\* more than one '?' or '#' included.
C15_ParametersRemovedForGood ==
    results # <<>> =>
        /\ \A i \in 1..Len(results[1]) : results[1][i] # "?"
        /\ ~ \E i \in 1..Len(results[1]) :
                /\ results[1][i] = "#"
                /\ \A j \in (i+1)..Len(results[1]) : results[1][j] \notin {"#", ";"}
        /\ Len(results) = 2 => results[2] = results[1]

\* The examples and properties of C16 that do not depend on the base 'A/subdir1/subdir2/'
C16_Common ==
    /\ (url = <<"Einstein">> /\ base = <<"A", "/">>) => results[1] = <<"A", "/", "Einstein">>
    /\ (url = <<"..", "/", "..", "/", "..", "/", "Einstein">> /\ base = <<"A", "/">>)
          => results[1] = <<"Einstein">>
    /\ (url = <<"/", "..", "/", "I", "/", "Einstein">>) => results[1] = <<"I", "/", "Einstein">>
    /\ results[1] = <<>> \/ results[1][1] # "/"
    /\ \A i \in 1..Len(results[1]) : results[1][i] \notin {"..", ".", "im%C3%A1gen.png"}
    /\ (url # <<>> /\ url[1] = "/") =>
            \A b \in Bases : results[1] = deriveZimUrlFromRelativeUrl(url, b, TRUE)

\* C16 as stated: deriveZimUrlFromRelativeUrl(url, base) returns the decoded path of url resolved
\* against base, with the '.' and '..' segments removed and without a leading slash: 'Einstein'
\* with base 'A/' gives 'A/Einstein', '../../I/im%C3%A1gen.png' with base 'A/subdir1/subdir2/'
\* gives 'I/imágen.png', a url that starts with '/' ignores the base, and '..' segments beyond the
\* root do not escape it.
C16_AsStated ==
    results # <<>> =>
        /\ C16_Common
        /\ (url = <<"..", "/", "..", "/", "I", "/", "im%C3%A1gen.png">>
                /\ base = <<"A", "/", "subdir1", "/", "subdir2", "/">>)
              => results[1] = <<"I", "/", "imágen.png">>

\* C16, amended: as stated, but '../../I/im%C3%A1gen.png' gives 'I/imágen.png' with base 'A/' (its
\* second '..' is beyond the root), and 'A/I/imágen.png' with base 'A/subdir1/subdir2/' (two
\* directories up from 'A/subdir1/subdir2/' is 'A/').
C16_DerivedZimUrl ==
    results # <<>> =>
        /\ C16_Common
        /\ (url = <<"..", "/", "..", "/", "I", "/", "im%C3%A1gen.png">> /\ base = <<"A", "/">>)
              => results[1] = <<"I", "/", "imágen.png">>
        /\ (url = <<"..", "/", "..", "/", "I", "/", "im%C3%A1gen.png">>
                /\ base = <<"A", "/", "subdir1", "/", "subdir2", "/">>)
              => results[1] = <<"A", "/", "I", "/", "imágen.png">>

\* C16 witness: '../../I/im%C3%A1gen.png' resolved against 'A/subdir1/subdir2/'
C16_Witness ==
    /\ url = <<"..", "/", "..", "/", "I", "/", "im%C3%A1gen.png">>
    /\ base = <<"A", "/", "subdir1", "/", "subdir2", "/">>
    /\ results = << <<"A", "/", "I", "/", "imágen.png">> >>

(***************************************************************************)
(* More claims about applyAppTheme                                         *)
(***************************************************************************)

\* The themes, each with the content part it is made of and, unless it is an auto theme, its app part
ThemeTable ==
    { [theme |-> t.theme, auto |-> FALSE, app |-> t.app, content |-> t.content] : t \in NonAutoThemes }
    \cup { [theme |-> S_auto \o c, auto |-> TRUE, app |-> <<>>, content |-> c] : c \in {<<>>, S__invert, S__mwInvert} }

\* The app theme a theme of the table stands for under a system preference
ExpectedAppTheme(t, dark) == IF t.auto THEN (IF dark THEN S_dark ELSE S_light) ELSE t.app

\* C17: after any sequence of applyAppTheme calls from a page without theme class, the html element
\* carries exactly one app theme class, the one resolved by the latest call, and the footer exactly
\* one content theme class, the one of the latest call ('_light' when it has none); no class of an
\* earlier theme is left on either.
C17_ExactlyOneThemeClass ==
    \A t \in ThemeTable :
        (themeCalls > 0 /\ lastTheme = t.theme) =>
            /\ htmlClasses = {ExpectedAppTheme(t, lastDark)}
            /\ footerClasses = {IF t.content = <<>> THEN S__light ELSE t.content}

\* C17 witness: the third call applied 'auto_invert' while the system preferred light
C17_Witness ==
    /\ themeCalls = 3
    /\ lastTheme = S_auto \o S__invert
    /\ ~lastDark
    /\ htmlClasses = {S_light}
    /\ footerClasses = {S__invert}

\* C18: applyAppTheme with an auto theme resolves the app theme to 'dark' when the system prefers
\* dark and to 'light' when not; when it is 'light', no content theme is applied to the article:
\* after the call the iframe carries no content theme class and the article document holds no
\* 'kiwixJSTheme' stylesheet, whatever theme was applied before.
C18_AutoThemeResolved ==
    \A t \in ThemeTable :
        (afterApply /\ t.auto /\ lastTheme = t.theme) =>
            /\ lastDark => S_dark \in htmlClasses /\ dataTheme = S_dark \o t.content
            /\ ~lastDark =>
                    /\ S_light \in htmlClasses /\ dataTheme = S_light \o t.content
                    /\ iframeClasses \cap {S__light, S__invert, S__mwInvert} = {}
                    /\ sheets = <<>>

\* C18 witness: 'auto_mwInvert' applied in a light system as the third theme, to a page that has an
\* article document
C18_Witness ==
    /\ themeCalls = 3
    /\ afterApply
    /\ docPresent
    /\ lastTheme = S_auto \o S__mwInvert
    /\ ~lastDark
    /\ S_light \in htmlClasses
    /\ iframeClasses = {}
    /\ sheets = <<>>

\* The state of the article document and of the classes is as C19 says
OneSheetOfLatestTheme ==
    /\ Len(sheets) <= 1
    /\ sheets # <<>> =>
            \E t \in ThemeTable :
                /\ lastTheme = t.theme
                /\ t.content # <<>>
                /\ sheets[1] = <<"prefix/css/", "kiwixJS">> \o t.content \o <<".", "css">>

\* A step that applies once more the theme just applied, under the same system preference
SameThemeAgain ==
    /\ afterApply
    /\ themeCalls' = themeCalls + 1
    /\ lastTheme' = lastTheme
    /\ lastDark' = lastDark

\* C19: after any sequence of applyAppTheme calls on one article document, the document holds at
\* most one stylesheet link with id 'kiwixJSTheme', and its href names the content theme of the
\* latest call; applying a theme twice in a row leaves the classes and the link as applying it once.
C19_OneSheetAndIdempotent ==
    /\ []OneSheetOfLatestTheme
    /\ [][SameThemeAgain => UNCHANGED <<htmlClasses, footerClasses, dataTheme, iframeClasses, sheets>>]_vars

\* C19 witness: 'dark_mwInvert' was applied as the third theme, and its stylesheet is the one link
C19_Witness ==
    /\ themeCalls = 3
    /\ afterApply
    /\ lastTheme = S_dark \o S__mwInvert
    /\ sheets = << <<"prefix/css/", "kiwixJS">> \o S__mwInvert \o <<".", "css">> >>
    /\ iframeClasses = {S__mwInvert}

(***************************************************************************)
(* One more claim about systemAlert                                        *)
(***************************************************************************)

\* C20: a systemAlert call that rejects for a missing message leaves the modal as it was: the
\* modal is not shown, its label, body and button texts are not changed, and no hide or keyup
\* listener is added.
C20_RejectedCallLeavesModal ==
    [][(Len(promises') = Len(promises) + 1 /\ promises'[Len(promises')].state = "rejected")
            => UNCHANGED <<modalShown, modalText, btnDisplay, hideListeners, keyupListeners>>]_vars

====
